---- MODULE Spec2Model ----
(***************************************************************************)
(* Ingestion pipeline and search coordinator of the clip backend           *)
(* (src/backend/server.py and its collaborators), as a state machine.      *)
(*                                                                         *)
(* Shared state: the SQLite tables videos and tags, the Milvus collection  *)
(* clip_embeddings, and the module-level cached Vectorizer.  Every request *)
(* is a process; a request is cut into steps at its accesses to shared     *)
(* state, each step carrying the local computation that follows the        *)
(* access.  Every call of an ingestion that can raise is given a raising   *)
(* outcome; the store reads of a search are taken to return: what a search *)
(* raises, it raises by its own code.                                      *)
(***************************************************************************)
EXTENDS Integers, Sequences, FiniteSets, Bags, TLC

(***************************************************************************)
(* Bounds of the model.                                                    *)
(***************************************************************************)
\* frames one demux can yield: 0..MaxFrames
MaxFrames == 1
\* vectors held by the index in the dedup specification
MaxIndex == 6
\* longest list of texts passed to encode_text
MaxTexts == 2
\* pieces a byte stream of the frame pipe is put together from
MaxPieces == 5
\* bytes a read of the frame pipe returns: the 4096 of the code, scaled to
\* the streams of the model
ChunkSize == 3

(***************************************************************************)
(* Program constants.                                                      *)
(***************************************************************************)
\* limit=10 of the Milvus search
SearchLimit == 10
\* the [:3] cut of the kept video ids
MaxResults == 3
\* max_retries of process_audio
max_retries == 3
\* columns of a videos row unpacked by the handlers: id, title, transcript, timestamp
VideoColumns == 4
\* width of a CLIP ViT-B/32 feature row
EmbeddingDim == 512
\* the "at most 3 lowercase tags" the prompt of process_audio asks for
MaxTags == 3
\* arguments of the ffmpeg transpose filter: a quarter turn clockwise, and
\* counter-clockwise
Clockwise == 1
CounterClockwise == 2

Ingesters == {"i1", "i2"}
Searchers == {"s1"}
VideoIds  == {"v1", "v2"}
TagTexts  == {"a", "b"}
\* the tags lists a parseable generation output carries here: none, one,
\* two distinct, the same text twice
GenTagLists == {<<>>, <<"a">>, <<"b", "a">>, <<"b", "b">>}
\* the video ids a client sends: by the symmetry of the ids the first
\* client's is fixed, the second's is the same or another
RequestIds(p) == IF p = "i1" THEN {"v1"} ELSE VideoIds
\* each client sends a title of its own, so a row tells who inserted it
RequestTitles(p) == IF p = "i1" THEN {"t1"} ELSE {"t2"}
\* video ids of the dedup specification (the A, B, C, D of a ranked list)
DedupIds  == {"A", "B", "C", "D"}

None == "None"
\* no Vectorizer; the n-th Vectorizer constructed is <<n>>
NoInstance == <<>>

VARIABLES
    \* ---- shared stores
    videos,              \* table videos: set of <<id, title, transcript, timestamp>>
    tags,                \* table tags: set of <<id, tag, video_id>>, id AUTOINCREMENT
    milvus,              \* collection clip_embeddings: bag of [embedding, video_id]
    vectorizer_instance, \* _vectorizer_instance of vectorizer.py: None or an instance
    loads,               \* number of Vectorizer constructions (model loads) so far
    \* ---- per request
    pc,                  \* position of each request in its handler
    req,                 \* the request's inputs
    loc,                 \* the handler's local variables
    response,            \* what the caller gets: "none" (pending), "ok", "error"
    error,               \* the call that raised, "none" when nothing did
    wrote                \* rows each ingestion has committed so far (history)

vars == <<videos, tags, milvus, vectorizer_instance, loads,
          pc, req, loc, response, error, wrote>>

Min(a, b) == IF a < b THEN a ELSE b

Max(a, b) == IF a > b THEN a ELSE b

Range(s) == {s[i] : i \in 1..Len(s)}

\* number of positions of s holding x
Count(s, x) == Cardinality({i \in 1..Len(s) : s[i] = x})

(***************************************************************************)
(* DatabaseOperations (src/backend/database_operations.py).                *)
(***************************************************************************)
\* joined rows as the list fetchall() returns, in tags rowid order (column 5)
RECURSIVE ByRowid(_)
ByRowid(rows) ==
    IF rows = {} THEN <<>>
    ELSE LET r == CHOOSE x \in rows : \A y \in rows : x[5] <= y[5]
         IN  <<r>> \o ByRowid(rows \ {r})

\* SELECT * FROM videos WHERE id = ? ; fetchall(): a list of rows
query_video_table(video_id) ==
    LET rows == {r \in videos : r[1] = video_id}
    IN  IF rows = {} THEN <<>> ELSE <<CHOOSE r \in rows : TRUE>>

\* a variant of the table without the key: no insert conflicts
PrimaryKeyConflict_nokey(video_id) == FALSE

\* the PRIMARY KEY of videos.id: a second insert of an id raises IntegrityError
PrimaryKeyConflict(video_id) == \E r \in videos : r[1] = video_id

\* a variant that drops the row (the commit is lost)
insert_video_table_lost(video_id, title, transcript, timestamp) == videos

\* INSERT into videos ... ; commit
insert_video_table(video_id, title, transcript, timestamp) ==
    videos \cup {<<video_id, title, transcript, timestamp>>}

\* the next AUTOINCREMENT id of tags
NextTagId == IF tags = {} THEN 1
             ELSE 1 + (CHOOSE m \in {r[1] : r \in tags} :
                          \A r \in tags : r[1] <= m)

\* a variant that drops the row (the commit is lost)
insert_tags_table_lost(tag, video_id) == tags

\* INSERT into tags (tag,video_id) ... ; commit
insert_tags_table(tag, video_id) == tags \cup {<<NextTagId, tag, video_id>>}

\* the tag column of the given tags rows, in rowid order
RECURSIVE TagColumn(_)
TagColumn(rows) ==
    IF rows = {} THEN <<>>
    ELSE LET r == CHOOSE x \in rows : \A y \in rows : x[1] <= y[1]
         IN  <<r[2]>> \o TagColumn(rows \ {r})

\* DISTINCT: a value is kept where it comes first
RECURSIVE Distinct(_, _)
Distinct(column, seen) ==
    IF column = <<>> THEN <<>>
    ELSE IF Head(column) \in seen THEN Distinct(Tail(column), seen)
    ELSE <<Head(column)>> \o Distinct(Tail(column), seen \cup {Head(column)})

\* a variant whose DISTINCT is lost: the tag of every row
query_tags_table_get_tags_all == TagColumn(tags)

\* SELECT DISTINCT tag from tags ; [data[0] for data in res]: a list
query_tags_table_get_tags == Distinct(TagColumn(tags), {})

\* SELECT * FROM tags where tag = ?
query_tags_table_by_tag(tag) == {r \in tags : r[2] = tag}

\* videos LEFT JOIN tags ON videos.id = tags.video_id, 7 columns a row
JoinVideosTags == {j \in {v \o t : v \in videos, t \in tags} : j[1] = j[7]}

\* a variant whose WHERE clause is lost: every joined row is returned
get_videos_from_tags_nowhere(tag) == ByRowid(JoinVideosTags)

\* SELECT * FROM videos LEFT JOIN tags ON videos.id = tags.video_id
\* WHERE tags.tag = ? : one 7-column row per matching tag row
get_videos_from_tags(tag) == ByRowid({j \in JoinVideosTags : j[6] = tag})

\* a variant that stores the vector under no video id
insert_vector_table_noid(vector_data, video_id) ==
    milvus (+) SetToBag({[embedding |-> vector_data, video_id |-> None]})

\* milvus insert of one {"embedding", "video_id"} entity
insert_vector_table(vector_data, video_id) ==
    milvus (+) SetToBag({[embedding |-> vector_data, video_id |-> video_id]})

\* the ranked lists of length k that the entities of bag b can give:
\* the distance order depends on the query vector and is left open
RECURSIVE Rankings(_, _)
Rankings(b, k) ==
    IF k = 0 \/ BagToSet(b) = {} THEN {<<>>}
    ELSE UNION {{<<e>> \o r : r \in Rankings(b (-) SetToBag({e}), k - 1)}
                : e \in BagToSet(b)}

\* milvus search, limit=10, output_fields=["video_id"]: result[0] is the
\* ranked hit list of the one query vector
search_vector_table(vector_data) ==
    Rankings(milvus, Min(SearchLimit, BagCardinality(milvus)))

(***************************************************************************)
(* ProcessingManager (src/backend/preprocessing/processing_manager.py).    *)
(***************************************************************************)
\* what ffmpeg.probe finds in the uploaded bytes
Containers == {[video_stream |-> TRUE], [video_stream |-> FALSE]}

\* a variant without the video_stream is None check
set_dimensions_from_metadata_unchecked(container) == "ok"

\* raises ValueError when the probe lists no stream of codec_type video
set_dimensions_from_metadata(container) ==
    IF ~container.video_stream THEN "ValueError" ELSE "ok"

\* ProcessingManager(video): probe and dimensions, then extract_audio;
\* fault names the collaborator call that raises, "none" when none does
ProcessingManager_init(container, fault) ==
    IF fault = "ffmpeg.probe" THEN "ffmpeg.probe"
    ELSE IF set_dimensions_from_metadata(container) # "ok" THEN "no_video_stream"
    ELSE IF fault = "extract_audio" THEN "extract_audio"
    ELSE "ok"

\* split_video_to_frames(fps) on a stream that decodes to n images
split_video_to_frames(n) == [k \in 1..n |-> "frame"]

(***************************************************************************)
(* TranscriptProcessor                                                     *)
(* (src/backend/preprocessing/transcript_processor.py).                    *)
(***************************************************************************)
\* response.text of the generation call: text that is no JSON, no text at
\* all (json.loads raises a TypeError), JSON without the two keys, or the
\* JSON object asked for
GenResponses ==
    {[kind |-> "malformed"], [kind |-> "no_text"], [kind |-> "no_keys"]}
    \cup {[kind |-> "object", prompt |-> "condensed", tags |-> t] :
            t \in GenTagLists}

\* a variant of the loop that treats every exception of the parse as it
\* treats a JSONDecodeError
RECURSIVE parse_loop_retry_all(_, _, _, _)
parse_loop_retry_all(resp, attempt, parses, sleeps) ==
    IF attempt >= max_retries
    THEN IF resp.kind = "object"
         THEN [outcome |-> "tuple", parses |-> parses, sleeps |-> sleeps,
               transcription |-> "transcript", prompt |-> resp.prompt,
               tags |-> resp.tags]
         ELSE [outcome |-> "KeyError", parses |-> parses, sleeps |-> sleeps]
    ELSE IF resp.kind \in {"malformed", "no_text"}
    THEN IF attempt < max_retries - 1
         THEN parse_loop_retry_all(resp, attempt + 1, parses + 1, sleeps + 1)
         ELSE [outcome |-> "None", parses |-> parses + 1, sleeps |-> sleeps]
    ELSE parse_loop_retry_all(resp, attempt + 1, parses + 1, sleeps)

\* the retry loop of process_audio from the given attempt on: the same
\* response.text is parsed on every pass, and a pass that parses does not
\* leave the loop
RECURSIVE parse_loop(_, _, _, _)
parse_loop(resp, attempt, parses, sleeps) ==
    IF attempt >= max_retries
    THEN \* return (transcription_text, prompt_and_tags["prompt"], prompt_and_tags["tags"])
         IF resp.kind = "object"
         THEN [outcome |-> "tuple", parses |-> parses, sleeps |-> sleeps,
               transcription |-> "transcript", prompt |-> resp.prompt,
               tags |-> resp.tags]
         ELSE [outcome |-> "KeyError", parses |-> parses, sleeps |-> sleeps]
    ELSE IF resp.kind = "malformed"
    THEN \* except json.JSONDecodeError
         IF attempt < max_retries - 1
         THEN parse_loop(resp, attempt + 1, parses + 1, sleeps + 1)
         ELSE [outcome |-> "None", parses |-> parses + 1, sleeps |-> sleeps]
    ELSE IF resp.kind = "no_text"
    THEN \* except Exception
         [outcome |-> "None", parses |-> parses + 1, sleeps |-> sleeps]
    ELSE parse_loop(resp, attempt + 1, parses + 1, sleeps)

\* a variant that falls back to empty tags when nothing parsed
process_audio_default(tags_arg, resp) ==
    LET r == parse_loop(resp, 0, 0, 0)
    IN  IF r.outcome = "None"
        THEN [outcome |-> "tuple", parses |-> r.parses, sleeps |-> r.sleeps,
              transcription |-> "transcript", prompt |-> "", tags |-> <<>>]
        ELSE r

\* process_audio(audio_bytes, tags) after the speech-to-text and generation
\* calls returned: the known tags only fill the prompt
process_audio(tags_arg, resp) == parse_loop(resp, 0, 0, 0)

\* create_transcript_from_audio: unpacking the None of process_audio into
\* three names raises a TypeError
create_transcript_from_audio(tags_arg, resp) ==
    LET r == process_audio(tags_arg, resp)
    IN  IF r.outcome = "None" THEN [outcome |-> "TypeError"] ELSE r

(***************************************************************************)
(* Vectorizer (src/backend/vectorizer.py).                                 *)
(***************************************************************************)
\* an array is its shape and what its numbers were computed from; a row of
\* features has EmbeddingDim numbers
image_vector == [shape |-> <<EmbeddingDim>>, data |-> "image_features"]

\* a variant that loses the last image of the batch
encode_images_short(images) == [k \in 1..(Len(images) - 1) |-> image_vector]

\* encode_images: the empty list gives the empty batch, else a row an image;
\* the batch is held as the list of its rows
encode_images(images) == [k \in 1..Len(images) |-> image_vector]

\* the argument of encode_text: a str, or a list of str
Str(t) == [type |-> "str", value |-> t]
List(ts) == [type |-> "list", value |-> ts]

\* encode_text: a str is wrapped into a list of one; result has a row for
\* each text (the cut of a text to 300 characters does not change the row
\* count); result.flatten() if len(text) == 1 else result
encode_text(text) ==
    LET texts == IF text.type = "str" THEN <<text.value>> ELSE text.value
        result == [shape |-> <<Len(texts), EmbeddingDim>>, data |-> "text_features"]
    IN  IF Len(texts) = 1
        THEN [result EXCEPT !.shape = <<Len(texts) * EmbeddingDim>>]
        ELSE result

(***************************************************************************)
(* search (src/backend/server.py): the dedup of the ranked hits.           *)
(***************************************************************************)
\* the list comprehension over result[0] with the seen set
RECURSIVE first_seen(_, _)
first_seen(ids, seen) ==
    IF ids = <<>> THEN <<>>
    ELSE IF Head(ids) \in seen THEN first_seen(Tail(ids), seen)
    ELSE <<Head(ids)>> \o first_seen(Tail(ids), seen \cup {Head(ids)})

\* a variant that cuts the hits to three before the dedup
unique_video_ids_cut_first(ids) ==
    first_seen(SubSeq(ids, 1, Min(MaxResults, Len(ids))), {})

\* unique_video_ids = [ ... if id not in seen and not seen.add(id) ][:3]
unique_video_ids(ids) ==
    LET u == first_seen(ids, {})
    IN  SubSeq(u, 1, Min(MaxResults, Len(u)))

(***************************************************************************)
(* get_vectorizer (src/backend/vectorizer.py): the test of the cached      *)
(* instance and the construction are two steps of the caller.              *)
(***************************************************************************)
AfterVectorizer(p) == IF p \in Ingesters THEN "query_tags" ELSE "search_vector"

\* what a finished handler leaves behind: its frame is gone, the values the
\* properties speak of are kept
Finished(l) == [l EXCEPT !.vectorizer = NoInstance, !.i = 0,
                         !.frames = <<>>, !.image_vectors = <<>>]

\* a variant that swallows the exception and answers as on success
create_video_swallow(p, call) ==
    /\ pc' = [pc EXCEPT ![p] = "done"]
    /\ response' = [response EXCEPT ![p] = "ok"]
    /\ error' = [error EXCEPT ![p] = call]

\* an exception leaves create_video: the try has a finally (db.close())
\* and no except, so the caller gets the failure
create_video_raise(p, call) ==
    /\ pc' = [pc EXCEPT ![p] = "done"]
    /\ response' = [response EXCEPT ![p] = "error"]
    /\ error' = [error EXCEPT ![p] = call]

\* an exception leaves search or the get_video it calls: try/finally again
search_raise(s, call) ==
    /\ pc' = [pc EXCEPT ![s] = "done"]
    /\ response' = [response EXCEPT ![s] = "error"]
    /\ error' = [error EXCEPT ![s] = call]

\* the handler's frame is dropped
drop_frame(p) ==
    loc' = [loc EXCEPT ![p] = IF p \in Ingesters THEN Finished(loc[p])
                              ELSE [loc[p] EXCEPT !.vectorizer = NoInstance]]

handler_raise(p, call) ==
    IF p \in Ingesters THEN create_video_raise(p, call) ELSE search_raise(p, call)

\* if _vectorizer_instance is None: _vectorizer_instance = Vectorizer(...)
\* return _vectorizer_instance ; clip.load may raise.  The call is one step
\* here: the stores do not depend on how two first calls interleave.
get_vectorizer(p) ==
    /\ pc[p] = "get_vectorizer"
    /\ \E fault \in {"none", "clip.load"} :
         IF vectorizer_instance # NoInstance
         THEN /\ loc' = [loc EXCEPT ![p].vectorizer = vectorizer_instance]
              /\ pc' = [pc EXCEPT ![p] = AfterVectorizer(p)]
              /\ UNCHANGED <<vectorizer_instance, loads, response, error>>
         ELSE IF fault # "none"
         THEN /\ handler_raise(p, fault)
              /\ drop_frame(p)
              /\ UNCHANGED <<vectorizer_instance, loads>>
         ELSE /\ loads' = loads + 1
              /\ vectorizer_instance' = <<loads + 1>>
              /\ loc' = [loc EXCEPT ![p].vectorizer = <<loads + 1>>]
              /\ pc' = [pc EXCEPT ![p] = AfterVectorizer(p)]
              /\ UNCHANGED <<response, error>>
    /\ UNCHANGED <<videos, tags, milvus, req, wrote>>

(***************************************************************************)
(* create_video (src/backend/server.py).                                   *)
(***************************************************************************)
IngestLoc == [vectorizer |-> NoInstance, generated |-> None,
              transcription |-> None, condensed_transcript |-> None,
              tags |-> <<>>, i |-> 0, frames |-> <<>>,
              image_vectors |-> <<>>]

\* the request arrives and ProcessingManager(video) is built, before the try
receive_video(p) ==
    /\ pc[p] = "idle"
    /\ \E videoId \in RequestIds(p), title \in RequestTitles(p), container \in Containers,
          fault \in {"none", "ffmpeg.probe", "extract_audio"} :
         /\ req' = [req EXCEPT ![p] = [videoId |-> videoId, title |-> title,
                                       timestamp |-> "ts", videoData |-> container]]
         /\ LET made == ProcessingManager_init(container, fault)
            IN  IF made # "ok"
                THEN create_video_raise(p, made) /\ drop_frame(p)
                ELSE /\ pc' = [pc EXCEPT ![p] = "get_vectorizer"]
                     /\ UNCHANGED <<loc, response, error>>
    /\ UNCHANGED <<videos, tags, milvus, vectorizer_instance, loads, wrote>>

\* tags = db.query_tags_table_get_tags(); pm.create_transcript_from_audio(tags)
\* with the generation call answering one of the given responses
transcribe_with(p, responses) ==
    /\ pc[p] = "query_tags"
    /\ \E fault \in {"none", "query_tags_table_get_tags", "speech_to_text",
                     "generate_content"},
          resp \in responses :
         LET r == create_transcript_from_audio(query_tags_table_get_tags, resp)
         IN  IF fault # "none"
             THEN create_video_raise(p, fault) /\ drop_frame(p)
             ELSE IF r.outcome # "tuple"
             THEN /\ create_video_raise(p, r.outcome)
                  /\ loc' = [loc EXCEPT ![p] =
                               Finished([loc[p] EXCEPT !.generated = resp.kind])]
             ELSE /\ loc' = [loc EXCEPT ![p] =
                               [loc[p] EXCEPT !.generated = resp.kind,
                                              !.transcription = r.transcription,
                                              !.condensed_transcript = r.prompt,
                                              !.tags = r.tags]]
                  /\ pc' = [pc EXCEPT ![p] = "insert_video"]
                  /\ UNCHANGED <<response, error>>
    /\ UNCHANGED <<videos, tags, milvus, vectorizer_instance, loads, req, wrote>>

transcribe(p) == transcribe_with(p, GenResponses)

\* db.insert_video_table(video.videoId, video.title, transcription, video.timestamp)
insert_video(p) ==
    /\ pc[p] = "insert_video"
    /\ \E fault \in {"none", "insert_video_table"} :
         IF fault # "none"
         THEN create_video_raise(p, fault) /\ drop_frame(p) /\ UNCHANGED <<videos, wrote>>
         ELSE IF PrimaryKeyConflict(req[p].videoId)
         THEN create_video_raise(p, "IntegrityError") /\ drop_frame(p) /\ UNCHANGED <<videos, wrote>>
         ELSE /\ videos' = insert_video_table(req[p].videoId, req[p].title,
                                              loc[p].transcription, req[p].timestamp)
              /\ wrote' = [wrote EXCEPT ![p].videos =
                             @ + Cardinality(videos') - Cardinality(videos)]
              /\ pc' = [pc EXCEPT ![p] = IF loc[p].tags = <<>> THEN "split_frames"
                                         ELSE "insert_tags"]
              /\ loc' = [loc EXCEPT ![p].i = 1]
              /\ UNCHANGED <<response, error>>
    /\ UNCHANGED <<tags, milvus, vectorizer_instance, loads, req>>

\* for tag in tags: db.insert_tags_table(tag, video.videoId)
insert_tag(p) ==
    /\ pc[p] = "insert_tags"
    /\ \E fault \in {"none", "insert_tags_table"} :
         IF fault # "none"
         THEN create_video_raise(p, fault) /\ drop_frame(p) /\ UNCHANGED <<tags, wrote>>
         ELSE /\ tags' = insert_tags_table(loc[p].tags[loc[p].i], req[p].videoId)
              /\ wrote' = [wrote EXCEPT ![p].tags =
                             @ + Cardinality(tags') - Cardinality(tags)]
              /\ IF loc[p].i = Len(loc[p].tags)
                 THEN /\ pc' = [pc EXCEPT ![p] = "split_frames"]
                      /\ loc' = [loc EXCEPT ![p].i = 1]
                 ELSE /\ pc' = pc
                      /\ loc' = [loc EXCEPT ![p].i = @ + 1]
              /\ UNCHANGED <<response, error>>
    /\ UNCHANGED <<videos, milvus, vectorizer_instance, loads, req>>

\* frames = pm.split_video_to_frames(3); image_vectors = vectorizer.encode_images(frames)
split_and_encode(p) ==
    /\ pc[p] = "split_frames"
    /\ \E fault \in {"none", "split_video_to_frames", "encode_images"},
          n \in 0..MaxFrames :
         IF fault # "none"
         THEN create_video_raise(p, fault) /\ drop_frame(p)
         ELSE /\ loc' = [loc EXCEPT ![p].frames = split_video_to_frames(n),
                         ![p].image_vectors =
                           encode_images(split_video_to_frames(n)),
                         ![p].i = 1]
              /\ pc' = [pc EXCEPT ![p] =
                           IF encode_images(split_video_to_frames(n)) = <<>>
                           THEN "encode_text" ELSE "insert_vectors"]
              /\ UNCHANGED <<response, error>>
    /\ UNCHANGED <<videos, tags, milvus, vectorizer_instance, loads, req, wrote>>

\* for image_vector in image_vectors: db.insert_vector_table(image_vector, videoId)
insert_image_vector(p) ==
    /\ pc[p] = "insert_vectors"
    /\ \E fault \in {"none", "insert_vector_table"} :
         IF fault # "none"
         THEN create_video_raise(p, fault) /\ drop_frame(p) /\ UNCHANGED <<milvus, wrote>>
         ELSE /\ milvus' = insert_vector_table(loc[p].image_vectors[loc[p].i],
                                               req[p].videoId)
              /\ wrote' = [wrote EXCEPT ![p].vectors =
                             @ + BagCardinality(milvus') - BagCardinality(milvus)]
              /\ IF loc[p].i = Len(loc[p].image_vectors)
                 THEN /\ pc' = [pc EXCEPT ![p] = "encode_text"]
                      /\ loc' = [loc EXCEPT ![p].i = 1]
                 ELSE /\ pc' = pc
                      /\ loc' = [loc EXCEPT ![p].i = @ + 1]
              /\ UNCHANGED <<response, error>>
    /\ UNCHANGED <<videos, tags, vectorizer_instance, loads, req>>

\* transcription_vector = vectorizer.encode_text(condensed_transcript);
\* db.insert_vector_table(transcription_vector, videoId); return "Item created"
insert_text_vector(p) ==
    /\ pc[p] = "encode_text"
    /\ \E fault \in {"none", "encode_text", "insert_vector_table"} :
         IF fault # "none"
         THEN create_video_raise(p, fault) /\ drop_frame(p) /\ UNCHANGED <<milvus, wrote>>
         ELSE /\ milvus' = insert_vector_table(
                               encode_text(Str(loc[p].condensed_transcript)),
                               req[p].videoId)
              /\ wrote' = [wrote EXCEPT ![p].vectors =
                             @ + BagCardinality(milvus') - BagCardinality(milvus)]
              /\ pc' = [pc EXCEPT ![p] = "done"]
              /\ response' = [response EXCEPT ![p] = "ok"]
              /\ loc' = [loc EXCEPT ![p] = Finished(loc[p])]
              /\ UNCHANGED error
    /\ UNCHANGED <<videos, tags, vectorizer_instance, loads, req>>

(***************************************************************************)
(* search and get_video (src/backend/server.py).                           *)
(***************************************************************************)
SearchLoc == [vectorizer |-> NoInstance, hits |-> <<>>, unique_video_ids |-> <<>>,
              video_objs |-> <<>>]

\* the searches sent: a tag search for each tag text, a text search
SearchRequests == {[type |-> "tag", input |-> t] : t \in TagTexts}
                  \cup {[type |-> "text", input |-> "query"]}

\* GET /api/search/?type=..&input=..
receive_search(s) ==
    /\ pc[s] = "idle"
    /\ \E r \in SearchRequests :
         /\ req' = [req EXCEPT ![s] = r]
         /\ pc' = [pc EXCEPT ![s] = IF r.type = "tag" THEN "tag_search"
                                    ELSE "get_vectorizer"]
    /\ UNCHANGED <<videos, tags, milvus, vectorizer_instance, loads,
                   loc, response, error, wrote>>

\* for (id, title, transcript, timestamp) in videos: ... over the rows of
\* get_videos_from_tags: a row of another width than 4 cannot be unpacked
\* (ValueError); past the unpacking, db.query_tags_table_by_video_id is no
\* method of DatabaseOperations (AttributeError)
tag_search_loop(rows) ==
    IF rows = <<>> THEN [outcome |-> "ok", video_objects |-> <<>>]
    ELSE IF Len(rows[1]) # VideoColumns THEN [outcome |-> "ValueError"]
    ELSE [outcome |-> "AttributeError"]

\* the type == "tag" branch
tag_search(s) ==
    /\ pc[s] = "tag_search"
    /\ LET r == tag_search_loop(get_videos_from_tags(req[s].input))
       IN  IF r.outcome # "ok"
           THEN search_raise(s, r.outcome) /\ loc' = loc
           ELSE /\ pc' = [pc EXCEPT ![s] = "done"]
                /\ response' = [response EXCEPT ![s] = "ok"]
                /\ loc' = [loc EXCEPT ![s].video_objs = r.video_objects]
                /\ UNCHANGED error
    /\ UNCHANGED <<videos, tags, milvus, vectorizer_instance, loads, req, wrote>>

\* the else branch up to unique_video_ids
search_vector(s) ==
    /\ pc[s] = "search_vector"
    /\ \E ranked \in search_vector_table(encode_text(Str(req[s].input))) :
         LET ids == [k \in 1..Len(ranked) |-> ranked[k].video_id]
             kept == unique_video_ids(ids)
         IN  /\ loc' = [loc EXCEPT ![s] =
                          [loc[s] EXCEPT !.hits = ids,
                                         !.unique_video_ids = kept,
                                         !.vectorizer = NoInstance]]
             /\ IF kept = <<>>
                THEN /\ pc' = [pc EXCEPT ![s] = "done"]
                     /\ response' = [response EXCEPT ![s] = "ok"]
                ELSE /\ pc' = [pc EXCEPT ![s] = "get_video"]
                     /\ UNCHANGED response
             /\ UNCHANGED error
    /\ UNCHANGED <<videos, tags, milvus, vectorizer_instance, loads, req, wrote>>

\* id, title, transcript, timestamp = db.query_video_table(videoId): the
\* list fetchall() returns is unpacked, not its row; past the unpacking,
\* db.query_tags_table_by_video_id is no method of DatabaseOperations
get_video(videoId) ==
    IF Len(query_video_table(videoId)) # VideoColumns
    THEN [outcome |-> "ValueError"]
    ELSE [outcome |-> "AttributeError"]

\* for video_id in unique_video_ids: video_objs.append(get_video(video_id)["result"])
resolve(s) ==
    /\ pc[s] = "get_video"
    /\ LET r == get_video(loc[s].unique_video_ids[Len(loc[s].video_objs) + 1])
       IN  search_raise(s, r.outcome)
    /\ UNCHANGED <<videos, tags, milvus, vectorizer_instance, loads, req, loc, wrote>>

(***************************************************************************)
(* The server: two ingestions and a search, interleaved at their accesses  *)
(* to the stores.                                                          *)
(***************************************************************************)
Procs == Ingesters \cup Searchers

Init ==
    /\ videos = {}
    /\ tags = {}
    /\ milvus = EmptyBag
    /\ vectorizer_instance = NoInstance
    /\ loads = 0
    /\ pc = [p \in Procs |-> "idle"]
    /\ req = [p \in Procs |-> None]
    /\ loc = [p \in Procs |-> IF p \in Ingesters THEN IngestLoc ELSE SearchLoc]
    /\ response = [p \in Procs |-> "none"]
    /\ error = [p \in Procs |-> "none"]
    /\ wrote = [p \in Ingesters |-> [videos |-> 0, tags |-> 0, vectors |-> 0]]

Next ==
    \/ \E p \in Procs : get_vectorizer(p)
    \/ \E p \in Ingesters : receive_video(p)
    \/ \E p \in Ingesters : transcribe(p)
    \/ \E p \in Ingesters : insert_video(p)
    \/ \E p \in Ingesters : insert_tag(p)
    \/ \E p \in Ingesters : split_and_encode(p)
    \/ \E p \in Ingesters : insert_image_vector(p)
    \/ \E p \in Ingesters : insert_text_vector(p)
    \/ \E s \in Searchers : receive_search(s)
    \/ \E s \in Searchers : tag_search(s)
    \/ \E s \in Searchers : search_vector(s)
    \/ \E s \in Searchers : resolve(s)

Spec == Init /\ [][Next]_vars

(***************************************************************************)
(* The text search over an index filled by earlier ingestions: up to       *)
(* MaxIndex vectors of four videos, every video with its row.              *)
(***************************************************************************)
RECURSIVE Total(_, _)
Total(f, S) == IF S = {} THEN 0
               ELSE LET x == CHOOSE y \in S : TRUE
                    IN  f[x] + Total(f, S \ {x})

\* the index holding f[d] vectors of video d
IndexOf(f) ==
    LET held == {d \in DedupIds : f[d] > 0}
    IN  [e \in {[embedding |-> image_vector, video_id |-> d] : d \in held}
           |-> f[e.video_id]]

Init_Dedup ==
    /\ \E f \in [DedupIds -> 0..MaxIndex] :
         /\ Total(f, DedupIds) <= MaxIndex
         /\ milvus = IndexOf(f)
         /\ videos = {<<d, "t1", "transcript", "ts">> : d \in {x \in DedupIds : f[x] > 0}}
    /\ tags = {}
    /\ vectorizer_instance = <<1>>
    /\ loads = 1
    /\ pc = [p \in Procs |-> IF p \in Ingesters THEN "idle" ELSE "search_vector"]
    /\ req = [p \in Procs |-> IF p \in Ingesters THEN None
                              ELSE [type |-> "text", input |-> "query"]]
    /\ loc = [p \in Procs |-> IF p \in Ingesters THEN IngestLoc
                              ELSE [SearchLoc EXCEPT !.vectorizer = <<1>>]]
    /\ response = [p \in Procs |-> "none"]
    /\ error = [p \in Procs |-> "none"]
    /\ wrote = [p \in Ingesters |-> [videos |-> 0, tags |-> 0, vectors |-> 0]]

Next_Dedup ==
    \/ \E s \in Searchers : search_vector(s)
    \/ \E s \in Searchers : resolve(s)

SpecDedup == Init_Dedup /\ [][Next_Dedup]_vars

(***************************************************************************)
(* Properties.                                                             *)
(***************************************************************************)
Done(p) == pc[p] = "done"

NothingWritten == [videos |-> 0, tags |-> 0, vectors |-> 0]

\* the calls of the embedding step of create_video
EmbeddingCalls == {"encode_images", "insert_vector_table", "encode_text"}

\* tag rows of the store with the given text and video id
TagRows(t, video_id) == {r \in tags : r[2] = t /\ r[3] = video_id}

\* C1: in every reachable state, every vector stored in the index carries a
\* video_id for which a video row exists in the metadata store.
C1_VectorsHaveVideoRow ==
    \A e \in BagToSet(milvus) : \E v \in videos : v[1] = e.video_id

\* C1 witness: a search has read vectors of one video from the index while
\* an ingestion of another video is still inserting its vectors.
C1_Witness ==
    \E p \in Ingesters, q \in Ingesters, s \in Searchers :
        /\ wrote[p].vectors > 0
        /\ pc[q] = "insert_vectors"
        /\ req[q].videoId # req[p].videoId
        /\ pc[s] = "get_video"

\* C2: when the embedding step of an ingestion has raised, the video row of
\* the ingestion is what the store returns for its id, and every tag the
\* ingestion derived has its row.
C2_MetadataSurvivesEmbeddingFailure ==
    \A p \in Ingesters :
        (Done(p) /\ error[p] \in EmbeddingCalls) =>
            /\ query_video_table(req[p].videoId) =
                  << <<req[p].videoId, req[p].title, loc[p].transcription,
                       req[p].timestamp>> >>
            /\ \A t \in TagTexts :
                  Cardinality(TagRows(t, req[p].videoId)) = Count(loc[p].tags, t)

\* C2 witness: an ingestion that derived two tags ended on a raising embedding call.
C2_Witness ==
    \E p \in Ingesters :
        /\ Done(p)
        /\ error[p] \in EmbeddingCalls
        /\ Len(loc[p].tags) = 2

\* C3: an ingestion whose generation output parses on no attempt ends in a
\* reported failure having written no video row, no tag row and no vector;
\* when no other ingestion carries its video id, the stores hold nothing
\* under that id.
C3_MalformedOutputPersistsNothing ==
    \A p \in Ingesters :
        (Done(p) /\ loc[p].generated = "malformed") =>
            /\ response[p] = "error"
            /\ wrote[p] = NothingWritten
            /\ (\A q \in Ingesters \ {p} :
                    pc[q] = "idle" \/ req[q].videoId # req[p].videoId) =>
                  /\ query_video_table(req[p].videoId) = <<>>
                  /\ \A r \in tags : r[3] # req[p].videoId
                  /\ \A e \in BagToSet(milvus) : e.video_id # req[p].videoId

\* C3 witness: an ingestion failed on unparseable output while the stores
\* hold the rows of another one.
C3_Witness ==
    \E p \in Ingesters :
        /\ Done(p)
        /\ loc[p].generated = "malformed"
        /\ error[p] = "TypeError"
        /\ videos # {}
        /\ tags # {}

\* C4, as stated: an embedding or index failure after the metadata commit
\* is swallowed, and the response of create_video indicates success.
C4_Original ==
    \A p \in Ingesters :
        (Done(p) /\ error[p] \in EmbeddingCalls) => response[p] = "ok"

\* C4, amended: an embedding or index failure after the metadata commit
\* leaves create_video as a failure the caller sees, the video row of the
\* ingestion being committed.
C4_EmbeddingFailurePropagates ==
    \A p \in Ingesters :
        (Done(p) /\ error[p] \in EmbeddingCalls) =>
            /\ response[p] = "error"
            /\ wrote[p].videos = 1

\* C4 witness: the insert of a vector raised after an earlier vector of the
\* same ingestion was stored.
C4_Witness ==
    \E p \in Ingesters :
        /\ Done(p)
        /\ error[p] = "insert_vector_table"
        /\ wrote[p].vectors >= 1

\* C5, as stated: a failure of stream probing, audio extraction or frame
\* sampling leaves no video row, tag row or vector of that ingestion.
C5_Original ==
    \A p \in Ingesters :
        (Done(p) /\ error[p] \in {"ffmpeg.probe", "no_video_stream",
                                  "extract_audio", "split_video_to_frames"}) =>
            wrote[p] = NothingWritten

\* C5, amended: a failure of stream probing or audio extraction leaves
\* nothing written; a failure of frame sampling comes after the metadata
\* commit and leaves the video row and all derived tag rows, and no vector.
C5_DemuxFailureEffects ==
    \A p \in Ingesters :
        /\ (Done(p) /\ error[p] \in {"ffmpeg.probe", "no_video_stream",
                                     "extract_audio"}) =>
              wrote[p] = NothingWritten
        /\ (Done(p) /\ error[p] = "split_video_to_frames") =>
              wrote[p] = [videos |-> 1, tags |-> Len(loc[p].tags), vectors |-> 0]

\* C5 witness: frame sampling raised in an ingestion that derived tags.
C5_Witness ==
    \E p \in Ingesters :
        /\ Done(p)
        /\ error[p] = "split_video_to_frames"
        /\ Len(loc[p].tags) >= 1

\* C6: an upload without a video stream, and a raising speech-to-text or
\* generation call, end the ingestion in a failure the caller sees, with
\* nothing written to either store.
C6_InputAndCollaboratorErrors ==
    \A p \in Ingesters :
        (Done(p) /\ (\/ ~req[p].videoData.video_stream
                     \/ error[p] \in {"speech_to_text", "generate_content"})) =>
            /\ response[p] = "error"
            /\ wrote[p] = NothingWritten

\* C6 witness: one ingestion ended on the missing video stream, another on
\* the raising generation call.
C6_Witness ==
    \E p \in Ingesters, q \in Ingesters :
        /\ Done(p) /\ error[p] = "no_video_stream"
        /\ Done(q) /\ error[q] = "generate_content"

\* position of the first occurrence of x in ids
FirstIndex(ids, x) ==
    CHOOSE i \in 1..Len(ids) : ids[i] = x /\ \A j \in 1..(i - 1) : ids[j] # x

\* kept is the distinct ids of the list in first-seen order, cut to three
IsFirstSeenCut(ids, kept) ==
    /\ Len(kept) = Min(3, Cardinality(Range(ids)))
    /\ Range(kept) \subseteq Range(ids)
    /\ \A i \in 1..Len(kept), j \in 1..Len(kept) :
          i < j => /\ kept[i] # kept[j]
                   /\ FirstIndex(ids, kept[i]) < FirstIndex(ids, kept[j])
    /\ \A x \in Range(ids) \ Range(kept), i \in 1..Len(kept) :
          FirstIndex(ids, kept[i]) < FirstIndex(ids, x)

\* C7: for every ranked hit list of at most 10 hits, the kept video ids are
\* the distinct ids of the list in first-seen order, cut to at most 3: no id
\* twice, in the order of the first occurrences.
C7_DedupFirstSeen ==
    \A s \in Searchers :
        (pc[s] \in {"get_video", "done"} /\ Len(loc[s].hits) <= 10) =>
            IsFirstSeenCut(loc[s].hits, loc[s].unique_video_ids)

\* C7 witness: the ranked list [A, A, B, A, C, B] was cut to [A, B, C].
C7_Witness ==
    \E s \in Searchers :
        /\ loc[s].hits = <<"A", "A", "B", "A", "C", "B">>
        /\ loc[s].unique_video_ids = <<"A", "B", "C">>

\* C8: a text search that got its model ends as a normal result holding
\* one record per kept video id, in the order of the kept ids, each the
\* record of that video; this covers results of fewer than three records.
C8_Claim ==
    \A s \in Searchers :
        (Done(s) /\ req[s].type = "text" /\ error[s] # "clip.load") =>
            /\ response[s] = "ok"
            /\ Len(loc[s].video_objs) = Len(loc[s].unique_video_ids)
            /\ \A k \in 1..Len(loc[s].video_objs) :
                  /\ loc[s].video_objs[k].videoId = loc[s].unique_video_ids[k]
                  /\ \E v \in videos :
                        /\ v[1] = loc[s].video_objs[k].videoId
                        /\ v[2] = loc[s].video_objs[k].title
                        /\ v[3] = loc[s].video_objs[k].transcript
                        /\ v[4] = loc[s].video_objs[k].timestamp

\* videos having a tag row of text t
VideosTagged(t) == {v \in videos : \E r \in tags : r[2] = t /\ r[3] = v[1]}

\* C9: a tag search returns one result per matching video, each with the
\* full tag list of its video, whatever rows the ingestions have stored.
C9_Claim ==
    [][\A s \in Searchers :
          (pc[s] = "tag_search" /\ pc'[s] = "done") =>
              /\ response'[s] = "ok"
              /\ Len(loc'[s].video_objs) = Cardinality(VideosTagged(req[s].input))
              /\ {o.videoId : o \in Range(loc'[s].video_objs)} =
                    {v[1] : v \in VideosTagged(req[s].input)}
              /\ \A o \in Range(loc'[s].video_objs) :
                    Range(o.tags) = {r[2] : r \in {x \in tags : x[3] = o.videoId}}
      ]_vars

\* C10: a tag search whose tag is the text of no stored tag row returns the
\* empty list as a normal result, in every state of the stores.
C10_NoMatchIsEmptyResult ==
    [][\A s \in Searchers :
          (/\ pc[s] = "tag_search"
           /\ pc'[s] = "done"
           /\ \A r \in tags : r[2] # req[s].input) =>
              /\ response'[s] = "ok"
              /\ loc'[s].video_objs = <<>>
      ]_vars

\* C10 witness: a tag search ended with the empty list while the tags table
\* holds rows, none of them of the searched text.
C10_Witness ==
    \E s \in Searchers :
        /\ Done(s)
        /\ req[s].type = "tag"
        /\ response[s] = "ok"
        /\ loc[s].video_objs = <<>>
        /\ tags # {}
        /\ \A r \in tags : r[2] # req[s].input

\* copies in the index of vectors carrying the given video id
VectorsOf(index, video_id) ==
    BagCardinality([e \in {x \in BagToSet(index) : x.video_id = video_id}
                      |-> index[e]])

\* C12: when an ingestion whose demux gave n frames (n >= 0) ends in
\* success, it has added n + 1 vectors to the index, and the index holds
\* n + 1 vectors under its video id; with n = 0 the one transcript vector.
C12_SuccessAddsFramesPlusOne ==
    [][\A p \in Ingesters :
          (pc[p] = "encode_text" /\ pc'[p] = "done" /\ response'[p] = "ok") =>
              /\ wrote'[p].vectors = Len(loc[p].frames) + 1
              /\ VectorsOf(milvus', req[p].videoId) = Len(loc[p].frames) + 1
      ]_vars

\* C12 witness: one ingestion succeeded having stored a frame vector and the
\* transcript vector, another having stored the transcript vector alone.
C12_Witness ==
    \E p \in Ingesters, q \in Ingesters :
        /\ Done(p) /\ response[p] = "ok" /\ wrote[p].vectors = MaxFrames + 1
        /\ Done(q) /\ response[q] = "ok" /\ wrote[q].vectors = 1

(***************************************************************************)
(* get_vectorizer (src/backend/vectorizer.py) called from several threads  *)
(* while no instance exists: the test of the global, the construction, the *)
(* store to the global and the read for the return are steps of their own, *)
(* and no lock is held between them.                                       *)
(***************************************************************************)
\* the model_name arguments of the calls: the default and another
ModelNames == {"ViT-B/32", "RN50"}

\* a caller enters get_vectorizer: search (def) runs on a worker thread of
\* its own; create_video (async def) runs on the one event-loop thread and
\* has no await inside the call, so no two ingestions are inside it at once
\* the call carries its model_name; seen is what its test of the global
\* will have found
call_get_vectorizer(p) ==
    /\ pc[p] = "idle"
    /\ p \in Ingesters => \A q \in Ingesters \ {p} : pc[q] \in {"idle", "done"}
    /\ \E model_name \in ModelNames :
         req' = [req EXCEPT ![p] = [model_name |-> model_name, seen |-> NoInstance]]
    /\ pc' = [pc EXCEPT ![p] = "test_instance"]
    /\ UNCHANGED <<videos, tags, milvus, vectorizer_instance, loads, loc,
                   response, error, wrote>>

\* if _vectorizer_instance is None:
test_instance(p) ==
    /\ pc[p] = "test_instance"
    /\ pc' = [pc EXCEPT ![p] = IF vectorizer_instance = NoInstance
                               THEN "construct" ELSE "return_instance"]
    /\ req' = [req EXCEPT ![p].seen = vectorizer_instance]
    /\ UNCHANGED <<videos, tags, milvus, vectorizer_instance, loads, loc,
                   response, error, wrote>>

\* Vectorizer(model_name=model_name): clip.load builds a new model, or
\* raises; the n-th Vectorizer built here is <<n, its model_name>>
construct(p) ==
    /\ pc[p] = "construct"
    /\ \E fault \in {"none", "clip.load"} :
         IF fault # "none"
         THEN /\ handler_raise(p, fault)
              /\ UNCHANGED <<loads, loc>>
         ELSE /\ loads' = loads + 1
              /\ loc' = [loc EXCEPT ![p].vectorizer =
                                        <<loads + 1, req[p].model_name>>]
              /\ pc' = [pc EXCEPT ![p] = "store_instance"]
              /\ UNCHANGED <<response, error>>
    /\ UNCHANGED <<videos, tags, milvus, vectorizer_instance, req, wrote>>

\* _vectorizer_instance = <the Vectorizer just built>
store_instance(p) ==
    /\ pc[p] = "store_instance"
    /\ vectorizer_instance' = loc[p].vectorizer
    /\ pc' = [pc EXCEPT ![p] = "return_instance"]
    /\ UNCHANGED <<videos, tags, milvus, loads, req, loc, response, error, wrote>>

\* return _vectorizer_instance
return_instance(p) ==
    /\ pc[p] = "return_instance"
    /\ loc' = [loc EXCEPT ![p].vectorizer = vectorizer_instance]
    /\ pc' = [pc EXCEPT ![p] = "done"]
    /\ response' = [response EXCEPT ![p] = "ok"]
    /\ UNCHANGED <<videos, tags, milvus, vectorizer_instance, loads, req,
                   error, wrote>>

\* the threads of Procs call get_vectorizer with no instance built yet
Init_Vectorizer == Init

Next_Vectorizer ==
    \/ \E p \in Procs : call_get_vectorizer(p)
    \/ \E p \in Procs : test_instance(p)
    \/ \E p \in Procs : construct(p)
    \/ \E p \in Procs : store_instance(p)
    \/ \E p \in Procs : return_instance(p)

SpecVectorizer == Init_Vectorizer /\ [][Next_Vectorizer]_vars

\* C11: however the threads that call get_vectorizer with no instance built
\* interleave, at most one model is loaded, and all callers that got an
\* instance got the same one.
C11_Claim ==
    /\ loads <= 1
    /\ \A p \in Procs, q \in Procs :
          (Done(p) /\ response[p] = "ok" /\ Done(q) /\ response[q] = "ok") =>
              loc[p].vectorizer = loc[q].vectorizer

(***************************************************************************)
(* Vectorizer.encode_text (src/backend/vectorizer.py) on its own: every    *)
(* caller passes a str, or a list of 1..MaxTexts str.                      *)
(***************************************************************************)
Texts == {"query", "condensed"}

TextInputs ==
    {Str(t) : t \in Texts}
    \cup {List(ts) : ts \in UNION {[1..n -> Texts] : n \in 1..MaxTexts}}

\* text_features = vectorizer.encode_text(text)
call_encode_text(p) ==
    /\ pc[p] = "idle"
    /\ loc' = [loc EXCEPT ![p] = [text_features |-> encode_text(req[p])]]
    /\ pc' = [pc EXCEPT ![p] = "done"]
    /\ UNCHANGED <<videos, tags, milvus, vectorizer_instance, loads, req,
                   response, error, wrote>>

Init_EncodeText ==
    /\ videos = {}
    /\ tags = {}
    /\ milvus = EmptyBag
    /\ vectorizer_instance = <<1>>
    /\ loads = 1
    /\ pc = [p \in Procs |-> "idle"]
    /\ req \in [Procs -> TextInputs]
    /\ loc = [p \in Procs |-> [text_features |-> None]]
    /\ response = [p \in Procs |-> "none"]
    /\ error = [p \in Procs |-> "none"]
    /\ wrote = [p \in Ingesters |-> NothingWritten]

Next_EncodeText == \E p \in Procs : call_encode_text(p)

SpecEncodeText == Init_EncodeText /\ [][Next_EncodeText]_vars

\* C13: encode_text of a single string returns one flat vector, and
\* encode_text of a list of N strings returns a batch of N vectors, for
\* every N >= 1, N = 1 included.
C13_Claim ==
    \A p \in Procs :
        Done(p) =>
            loc[p].text_features.shape =
                IF req[p].type = "str" THEN <<EmbeddingDim>>
                ELSE <<Len(req[p].value), EmbeddingDim>>

\* C14: a failed ingestion has written either nothing, or its video row
\* with all of its derived tag rows and some of its vectors; it never
\* leaves its video row with only part of its derived tag rows.
C14_Claim ==
    \A p \in Ingesters :
        (Done(p) /\ response[p] = "error") =>
            \/ wrote[p] = NothingWritten
            \/ /\ wrote[p].videos = 1
               /\ wrote[p].tags = Len(loc[p].tags)
               /\ \A t \in TagTexts :
                     Cardinality(TagRows(t, req[p].videoId)) = Count(loc[p].tags, t)

\* C15: whatever ingestions run and however they interleave, several with
\* the same video id included: the videos table holds at most one row for
\* an id, a row once inserted stays as it was inserted, and an ingestion
\* that reaches its video insert when a row of its id exists fails there,
\* having added no video row, no tag row and no vector.
C15_VideoIdentity ==
    [][/\ \A v \in videos : v \in videos'
       /\ \A v \in videos', w \in videos' : v[1] = w[1] => v = w
       /\ \A p \in Ingesters :
             (/\ pc[p] = "insert_video"
              /\ pc'[p] # "insert_video"
              /\ \E v \in videos : v[1] = req[p].videoId) =>
                 /\ pc'[p] = "done"
                 /\ response'[p] = "error"
                 /\ wrote'[p] = NothingWritten
                 /\ videos' = videos /\ tags' = tags /\ milvus' = milvus
      ]_vars

\* C15 witness: two ingestions carried the same video id; one inserted the
\* row, which holds its title, and the other failed on the key.
C15_Witness ==
    \E p \in Ingesters, q \in Ingesters :
        /\ wrote[p].videos = 1
        /\ Done(q) /\ error[q] = "IntegrityError"
        /\ req[p].videoId = req[q].videoId
        /\ \E v \in videos : v[1] = req[q].videoId /\ v[2] = req[p].title
        /\ req[p].title # req[q].title

\* C16: no tag row is ever removed, and the vocabulary an ingestion gets
\* from query_tags_table_get_tags holds every tag text that has a row
\* exactly once, and no text that has no row.
C16_VocabularyRoundTrip ==
    [][/\ tags \subseteq tags'
       /\ \A p \in Ingesters :
             (pc[p] = "query_tags" /\ pc'[p] # "query_tags") =>
                 LET vocabulary == query_tags_table_get_tags
                 IN  /\ Range(vocabulary) = {r[2] : r \in tags}
                     /\ \A t \in Range(vocabulary) : Count(vocabulary, t) = 1
      ]_vars

\* C16 witness: an ingestion has fetched the vocabulary and derived its own
\* tags, another one has stored the same tag text in two rows.
C16_Witness ==
    \E p \in Ingesters, q \in Ingesters :
        /\ pc[p] = "insert_video"
        /\ wrote[q].tags = 2
        /\ Cardinality(TagRows("b", req[q].videoId)) = 2

(***************************************************************************)
(* ProcessingManager (src/backend/preprocessing/processing_manager.py):   *)
(* the rotation read from the probe, the effective dimensions and the      *)
(* transpose filters of split_video_to_frames, on their own.               *)
(***************************************************************************)
Rotations == {0, 90, 180, 270, -90, -180, -270}

\* (width, height) of the probed video stream
Sizes == {<<640, 360>>, <<360, 640>>, <<480, 480>>}

\* an entry of the probe that may be missing: tags.rotate, and the rotation
\* of a Display Matrix in side_data_list
Entries == {[present |-> FALSE, rotation |-> 0]}
           \cup {[present |-> TRUE, rotation |-> r] : r \in Rotations}

VideoStreams ==
    {[width |-> sz[1], height |-> sz[2], rotate |-> t, display_matrix |-> d] :
        sz \in Sizes, t \in Entries, d \in Entries}

\* a variant that swaps for the positive quarter turns only
dimensions_positive_only(video_stream) ==
    LET rotation == IF video_stream.display_matrix.present
                    THEN video_stream.display_matrix.rotation
                    ELSE IF video_stream.rotate.present
                    THEN video_stream.rotate.rotation
                    ELSE 0
        swap == rotation \in {90, 270}
    IN  [original_width |-> video_stream.width,
         original_height |-> video_stream.height,
         rotation |-> rotation,
         width |-> IF swap THEN video_stream.height ELSE video_stream.width,
         height |-> IF swap THEN video_stream.width ELSE video_stream.height]

\* set_dimensions_from_metadata past the test of video_stream: rotation is
\* 0, then tags.rotate, then the Display Matrix rotation, the later
\* overriding the earlier; width and height are swapped for a quarter turn
dimensions(video_stream) ==
    LET rotation == IF video_stream.display_matrix.present
                    THEN video_stream.display_matrix.rotation
                    ELSE IF video_stream.rotate.present
                    THEN video_stream.rotate.rotation
                    ELSE 0
        swap == rotation \in {90, 270, -90, -270}
    IN  [original_width |-> video_stream.width,
         original_height |-> video_stream.height,
         rotation |-> rotation,
         width |-> IF swap THEN video_stream.height ELSE video_stream.width,
         height |-> IF swap THEN video_stream.width ELSE video_stream.height]

\* the transpose filters split_video_to_frames puts on the stream, by their
\* argument
rotation_filters(rotation) ==
    IF rotation = 90 \/ rotation = -270 THEN <<Clockwise>>
    ELSE IF rotation = 180 \/ rotation = -180 THEN <<Clockwise, Clockwise>>
    ELSE IF rotation = 270 \/ rotation = -90 THEN <<CounterClockwise>>
    ELSE <<>>

\* (width, height) of a picture after the given transposes: each exchanges
\* the two
RECURSIVE transposed(_, _)
transposed(size, filters) ==
    IF filters = <<>> THEN size
    ELSE transposed(<<size[2], size[1]>>, Tail(filters))

\* ProcessingManager(video): set_dimensions_from_metadata
probe_dimensions(p) ==
    /\ pc[p] = "probe"
    /\ loc' = [loc EXCEPT ![p] = dimensions(req[p])]
    /\ pc' = [pc EXCEPT ![p] = "filters"]
    /\ UNCHANGED <<videos, tags, milvus, vectorizer_instance, loads, req,
                   response, error, wrote>>

\* split_video_to_frames up to the fps filter: the frames leave the
\* transposes with the size frame_size
build_filters(p) ==
    /\ pc[p] = "filters"
    /\ response' = [response EXCEPT ![p] =
                      [filters |-> rotation_filters(loc[p].rotation),
                       frame_size |-> transposed(<<loc[p].original_width,
                                                   loc[p].original_height>>,
                                                 rotation_filters(loc[p].rotation))]]
    /\ pc' = [pc EXCEPT ![p] = "done"]
    /\ UNCHANGED <<videos, tags, milvus, vectorizer_instance, loads, req,
                   loc, error, wrote>>

\* the one ProcessingManager of the rotation specification
Managers == {"i1"}

Init_Rotation ==
    /\ videos = {}
    /\ tags = {}
    /\ milvus = EmptyBag
    /\ vectorizer_instance = NoInstance
    /\ loads = 0
    /\ pc = [p \in Procs |-> IF p \in Managers THEN "probe" ELSE "idle"]
    /\ \E vs \in VideoStreams : req = [p \in Procs |-> vs]
    /\ loc = [p \in Procs |-> [original_width |-> 0, original_height |-> 0,
                              rotation |-> 0, width |-> 0, height |-> 0]]
    /\ response = [p \in Procs |-> [filters |-> <<>>, frame_size |-> <<0, 0>>]]
    /\ error = [p \in Procs |-> "none"]
    /\ wrote = [p \in Ingesters |-> NothingWritten]

Next_Rotation ==
    \/ \E p \in Managers : probe_dimensions(p)
    \/ \E p \in Managers : build_filters(p)

SpecRotation == Init_Rotation /\ [][Next_Rotation]_vars

QuarterTurns == {90, 270, -90, -270}

\* C17: for every rotation of 0, 90, 180, 270, -90, -180, -270 the
\* effective (width, height) is the original one exchanged exactly for 90,
\* 270 and their negatives; split_video_to_frames applies one quarter turn
\* for 90 and -270, one in the other direction for 270 and -90, two for 180
\* and -180 and none for 0, an odd number exactly when the dimensions are
\* exchanged, so frames leave the transposes at the effective size.
C17_RotationRule ==
    \A p \in Managers :
        (Done(p) /\ loc[p].rotation \in Rotations) =>
            LET m == loc[p]
                f == response[p].filters
            IN  /\ <<m.width, m.height>> =
                      IF m.rotation \in QuarterTurns
                      THEN <<m.original_height, m.original_width>>
                      ELSE <<m.original_width, m.original_height>>
                /\ m.rotation \in {90, -270} => f = <<Clockwise>>
                /\ m.rotation \in {270, -90} => f = <<CounterClockwise>>
                /\ m.rotation \in {180, -180} => Len(f) = 2
                /\ m.rotation = 0 => Len(f) = 0
                /\ (Len(f) % 2 = 1) <=> (m.rotation \in QuarterTurns)
                /\ response[p].frame_size = <<m.width, m.height>>

\* C17 witness: a 640x360 stream whose Display Matrix says -90 over a rotate
\* tag of 180 got the effective size 360x640 and one counter-clockwise turn.
C17_Witness ==
    \E p \in Managers :
        /\ Done(p)
        /\ req[p].rotate = [present |-> TRUE, rotation |-> 180]
        /\ loc[p].rotation = -90
        /\ <<loc[p].original_width, loc[p].original_height>> = <<640, 360>>
        /\ <<loc[p].width, loc[p].height>> = <<360, 640>>
        /\ response[p].filters = <<CounterClockwise>>

(***************************************************************************)
(* TranscriptProcessor.process_audio                                       *)
(* (src/backend/preprocessing/transcript_processor.py) statement by        *)
(* statement: the two collaborator calls, the retry loop, the return.      *)
(***************************************************************************)
Callers == Ingesters

\* the frame of a process_audio call; outcomes lists what each json.loads
\* of the call did, result what the call ended with
AudioLoc == [text |-> None, generations |-> 0, attempt |-> 0, parses |-> 0,
             sleeps |-> 0, outcomes |-> <<>>, last |-> "none", result |-> "none"]

\* what json.loads(response.text) does with the response
json_loads(kind) ==
    IF kind = "malformed" THEN "JSONDecodeError"
    ELSE IF kind = "no_text" THEN "TypeError"
    ELSE "parsed"

\* transcription_text = self.speech_to_text(audio_bytes)
speech_to_text(p) ==
    /\ pc[p] = "idle"
    /\ \E fault \in {"none", "speech_to_text"} :
         IF fault # "none"
         THEN /\ loc' = [loc EXCEPT ![p].result = fault]
              /\ pc' = [pc EXCEPT ![p] = "done"]
         ELSE /\ loc' = loc
              /\ pc' = [pc EXCEPT ![p] = "generate_content"]
    /\ UNCHANGED <<videos, tags, milvus, vectorizer_instance, loads, req,
                   response, error, wrote>>

\* response = self.client.models.generate_content(...) ; max_retries = 3
generate_content(p) ==
    /\ pc[p] = "generate_content"
    /\ \E fault \in {"none", "generate_content"}, resp \in GenResponses :
         IF fault # "none"
         THEN /\ loc' = [loc EXCEPT ![p].result = fault]
              /\ pc' = [pc EXCEPT ![p] = "done"]
              /\ req' = req
         ELSE /\ req' = [req EXCEPT ![p] = resp]
              /\ loc' = [loc EXCEPT ![p].text = resp.kind,
                                    ![p].generations = @ + 1]
              /\ pc' = [pc EXCEPT ![p] = "json_loads"]
    /\ UNCHANGED <<videos, tags, milvus, vectorizer_instance, loads,
                   response, error, wrote>>

\* the next pass of for attempt in range(max_retries), or the return
\* statement when the range is used up
next_attempt(attempt) ==
    IF attempt + 1 < max_retries THEN "json_loads" ELSE "return"

\* a variant of the loop body that waits and goes on after every
\* JSONDecodeError, the last attempt included
parse_attempt_no_giving_up(p) ==
    /\ pc[p] = "json_loads"
    /\ LET did == json_loads(req[p].kind)
           l == [loc[p] EXCEPT !.parses = @ + 1,
                               !.outcomes = Append(@, did),
                               !.last = did]
       IN  IF did = "JSONDecodeError"
           THEN /\ loc' = [loc EXCEPT ![p] = l]
                /\ pc' = [pc EXCEPT ![p] = "sleep"]
           ELSE IF did = "TypeError"
           THEN /\ loc' = [loc EXCEPT ![p] = [l EXCEPT !.result = "None"]]
                /\ pc' = [pc EXCEPT ![p] = "done"]
           ELSE /\ loc' = [loc EXCEPT ![p] = [l EXCEPT !.attempt = @ + 1]]
                /\ pc' = [pc EXCEPT ![p] = next_attempt(l.attempt)]
    /\ UNCHANGED <<videos, tags, milvus, vectorizer_instance, loads, req,
                   response, error, wrote>>

\* try: prompt_and_tags = json.loads(response.text)
\* except json.JSONDecodeError: wait when attempt < max_retries - 1, else
\* return None ; except Exception: return None ; a pass that parsed goes on
\* to the next pass
parse_attempt(p) ==
    /\ pc[p] = "json_loads"
    /\ LET did == json_loads(req[p].kind)
           l == [loc[p] EXCEPT !.parses = @ + 1,
                               !.outcomes = Append(@, did),
                               !.last = did]
       IN  IF did = "JSONDecodeError" /\ l.attempt < max_retries - 1
           THEN /\ loc' = [loc EXCEPT ![p] = l]
                /\ pc' = [pc EXCEPT ![p] = "sleep"]
           ELSE IF did \in {"JSONDecodeError", "TypeError"}
           THEN /\ loc' = [loc EXCEPT ![p] = [l EXCEPT !.result = "None"]]
                /\ pc' = [pc EXCEPT ![p] = "done"]
           ELSE /\ loc' = [loc EXCEPT ![p] = [l EXCEPT !.attempt = @ + 1]]
                /\ pc' = [pc EXCEPT ![p] = next_attempt(l.attempt)]
    /\ UNCHANGED <<videos, tags, milvus, vectorizer_instance, loads, req,
                   response, error, wrote>>

\* a variant of the wait that asks the generation collaborator again
sleep_and_regenerate(p) ==
    /\ pc[p] = "sleep"
    /\ \E resp \in GenResponses :
         /\ req' = [req EXCEPT ![p] = resp]
         /\ loc' = [loc EXCEPT ![p].sleeps = @ + 1, ![p].last = "sleep",
                               ![p].attempt = @ + 1,
                               ![p].text = resp.kind,
                               ![p].generations = @ + 1]
    /\ pc' = [pc EXCEPT ![p] = next_attempt(loc[p].attempt)]
    /\ UNCHANGED <<videos, tags, milvus, vectorizer_instance, loads,
                   response, error, wrote>>

\* time.sleep(0.5), then the next pass of the loop
sleep(p) ==
    /\ pc[p] = "sleep"
    /\ loc' = [loc EXCEPT ![p].sleeps = @ + 1, ![p].last = "sleep",
                          ![p].attempt = @ + 1]
    /\ req' = req
    /\ pc' = [pc EXCEPT ![p] = next_attempt(loc[p].attempt)]
    /\ UNCHANGED <<videos, tags, milvus, vectorizer_instance, loads,
                   response, error, wrote>>

\* return (transcription_text, prompt_and_tags["prompt"], prompt_and_tags["tags"])
return_tuple(p) ==
    /\ pc[p] = "return"
    /\ loc' = [loc EXCEPT ![p].result =
                 IF loc[p].last # "parsed" THEN "UnboundLocalError"
                 ELSE IF req[p].kind = "object" THEN "tuple"
                 ELSE "KeyError"]
    /\ pc' = [pc EXCEPT ![p] = "done"]
    /\ UNCHANGED <<videos, tags, milvus, vectorizer_instance, loads, req,
                   response, error, wrote>>

Init_ProcessAudio ==
    /\ videos = {}
    /\ tags = {}
    /\ milvus = EmptyBag
    /\ vectorizer_instance = NoInstance
    /\ loads = 0
    /\ pc = [p \in Procs |-> "idle"]
    /\ req = [p \in Procs |-> [kind |-> "none"]]
    /\ loc = [p \in Procs |-> AudioLoc]
    /\ response = [p \in Procs |-> "none"]
    /\ error = [p \in Procs |-> "none"]
    /\ wrote = [p \in Ingesters |-> NothingWritten]

Next_ProcessAudio ==
    \/ \E p \in Callers : speech_to_text(p)
    \/ \E p \in Callers : generate_content(p)
    \/ \E p \in Callers : parse_attempt(p)
    \/ \E p \in Callers : sleep(p)
    \/ \E p \in Callers : return_tuple(p)

\* a call that can take a step takes one: the calls are blocking and
\* nothing in process_audio waits for another call
SpecProcessAudio ==
    Init_ProcessAudio /\ [][Next_ProcessAudio]_vars /\ WF_vars(Next_ProcessAudio)

\* the calls whose two collaborator calls returned
Generated(p) == loc[p].generations > 0

C18_Safe ==
    \A p \in Callers :
        LET l == loc[p]
            decode_errors == Count(l.outcomes, "JSONDecodeError")
        IN  /\ l.parses = Len(l.outcomes)
            /\ l.parses <= max_retries
            /\ l.sleeps <= max_retries - 1
            /\ l.sleeps = IF pc[p] = "sleep" \/ Done(p)
                          THEN Max(decode_errors - 1, 0)
                          ELSE decode_errors
            /\ (Done(p) /\ Generated(p)) =>
                  /\ \/ /\ l.result = "tuple"
                        /\ req[p].kind = "object"
                        /\ l.outcomes = <<"parsed", "parsed", "parsed">>
                     \/ /\ l.result = "None"
                        /\ l.outcomes = <<"JSONDecodeError", "JSONDecodeError",
                                          "JSONDecodeError">>
                     \/ /\ l.result = "None"
                        /\ l.outcomes = <<"TypeError">>
                     \/ /\ l.result = "KeyError"
                        /\ req[p].kind = "no_keys"
                        /\ l.outcomes = <<"parsed", "parsed", "parsed">>
                  /\ LET r == process_audio(<<>>, req[p])
                     IN  /\ r.outcome = l.result
                         /\ r.parses = l.parses
                         /\ r.sleeps = l.sleeps

\* every call ends
C18_AllDone == \A p \in Callers : Done(p)

SOI == <<"ff", "d8">>
EOI == <<"ff", "d9">>

\* the byte streams of the pipe: up to MaxPieces of the two markers, their
\* single bytes, a payload byte and a payload byte of a corrupt image
Pieces == {SOI, EOI, <<"ff">>, <<"d8">>, <<"d9">>, <<"00">>, <<"xx">>}

RECURSIVE Concat(_)
Concat(ps) == IF ps = <<>> THEN <<>> ELSE Head(ps) \o Concat(Tail(ps))

ByteStreams ==
    {Concat(ps) : ps \in UNION {[1..n -> Pieces] : n \in 0..MaxPieces}}

\* bytes.find(sub, start) for a two-byte sub, positions counted from 1 and
\* 0 for the -1 of Python
find(data, sub, start) ==
    LET hits == {i \in start..(Len(data) - 1) :
                    data[i] = sub[1] /\ data[i + 1] = sub[2]}
    IN  IF hits = {} THEN 0
        ELSE CHOOSE i \in hits : \A j \in hits : i <= j

\* Image.open(BytesIO(jpeg_bytes)) and img.copy() raise for a corrupt image
decodes(jpeg_bytes) == "xx" \notin Range(jpeg_bytes)

\* a variant of the inner loop that gives up at the first image that does
\* not decode
RECURSIVE scan_until_failure(_, _)
scan_until_failure(jpeg_data, frames) ==
    LET start == find(jpeg_data, SOI, 1)
        end == find(jpeg_data, EOI, start + 2)
    IN  IF start = 0 \/ end = 0
        THEN [jpeg_data |-> jpeg_data, frames |-> frames]
        ELSE LET jpeg_bytes == SubSeq(jpeg_data, start, end + 1)
                 rest == SubSeq(jpeg_data, end + 2, Len(jpeg_data))
             IN  IF decodes(jpeg_bytes)
                 THEN scan_until_failure(rest, Append(frames, jpeg_bytes))
                 ELSE [jpeg_data |-> <<>>, frames |-> frames]

\* a variant of the inner loop that empties the buffer when it holds no
\* complete image
RECURSIVE scan_drop_tail(_, _)
scan_drop_tail(jpeg_data, frames) ==
    LET start == find(jpeg_data, SOI, 1)
        end == find(jpeg_data, EOI, start + 2)
    IN  IF start = 0 \/ end = 0
        THEN [jpeg_data |-> <<>>, frames |-> frames]
        ELSE LET jpeg_bytes == SubSeq(jpeg_data, start, end + 1)
                 rest == SubSeq(jpeg_data, end + 2, Len(jpeg_data))
             IN  scan_drop_tail(rest, IF decodes(jpeg_bytes)
                                      THEN Append(frames, jpeg_bytes) ELSE frames)

\* the inner while True: the first start marker, the first end marker from
\* two bytes after it, the image between them is cut off the buffer with
\* all before it, and appended when it decodes
RECURSIVE scan(_, _)
scan(jpeg_data, frames) ==
    LET start == find(jpeg_data, SOI, 1)
        end == find(jpeg_data, EOI, start + 2)
    IN  IF start = 0 \/ end = 0
        THEN [jpeg_data |-> jpeg_data, frames |-> frames]
        ELSE LET jpeg_bytes == SubSeq(jpeg_data, start, end + 1)
                 rest == SubSeq(jpeg_data, end + 2, Len(jpeg_data))
             IN  scan(rest, IF decodes(jpeg_bytes)
                            THEN Append(frames, jpeg_bytes) ELSE frames)

\* the outer while True: chunk = process.stdout.read(4096) until the empty
\* chunk, jpeg_data += chunk, then the inner loop
RECURSIVE read_frames(_, _, _)
read_frames(stdout, jpeg_data, frames) ==
    IF stdout = <<>> THEN frames
    ELSE LET n == Min(ChunkSize, Len(stdout))
             r == scan(jpeg_data \o SubSeq(stdout, 1, n), frames)
         IN  read_frames(SubSeq(stdout, n + 1, Len(stdout)), r.jpeg_data, r.frames)

\* frames = pm.split_video_to_frames(fps) on the pipe output req[p]
read_pipe(p) ==
    /\ pc[p] = "idle"
    /\ loc' = [loc EXCEPT ![p] = [frames |-> read_frames(req[p], <<>>, <<>>)]]
    /\ pc' = [pc EXCEPT ![p] = "done"]
    /\ UNCHANGED <<videos, tags, milvus, vectorizer_instance, loads, req,
                   response, error, wrote>>

Init_Frames ==
    /\ videos = {}
    /\ tags = {}
    /\ milvus = EmptyBag
    /\ vectorizer_instance = NoInstance
    /\ loads = 0
    /\ pc = [p \in Procs |-> "idle"]
    /\ \E stream \in ByteStreams : req = [p \in Procs |-> stream]
    /\ loc = [p \in Procs |-> [frames |-> <<>>]]
    /\ response = [p \in Procs |-> "none"]
    /\ error = [p \in Procs |-> "none"]
    /\ wrote = [p \in Ingesters |-> NothingWritten]

Next_Frames == \E p \in Managers : read_pipe(p)

SpecFrames == Init_Frames /\ [][Next_Frames]_vars

\* the marker-delimited images of a stream, in stream order: an image runs
\* from the first start marker to the first end marker that begins two
\* bytes or more after it, the next image is looked for behind it
RECURSIVE Delimited(_)
Delimited(stream) ==
    LET s == find(stream, SOI, 1)
        e == find(stream, EOI, s + 2)
    IN  IF s = 0 \/ e = 0 THEN <<>>
        ELSE <<SubSeq(stream, s, e + 1)>>
             \o Delimited(SubSeq(stream, e + 2, Len(stream)))

\* C20: for every byte stream of the pipe, read in chunks, the frames
\* split_video_to_frames returns are, in stream order, exactly the
\* marker-delimited images of the stream that decode; an image that does
\* not decode is left out and the complete images behind it are returned.
C20_FramesAreDecodableImages ==
    \A p \in Managers :
        Done(p) => loc[p].frames = SelectSeq(Delimited(req[p]), decodes)

\* C20 witness: of a corrupt image followed by a good one, with a chunk
\* border inside each, the good one was returned.
C20_Witness ==
    \E p \in Managers :
        /\ Done(p)
        /\ req[p] = SOI \o <<"xx">> \o EOI \o SOI \o EOI
        /\ loc[p].frames = <<SOI \o EOI>>

(***************************************************************************)
(* The read loop of split_video_to_frames with reads of any length: each   *)
(* process.stdout.read returns some bytes of what the pipe still holds.    *)
(***************************************************************************)
\* the frame of the loop: what the pipe still holds, the buffer, the
\* frames so far, and whether a read has ended inside a two-byte marker
PipeLoc(stream) == [stdout |-> stream, jpeg_data |-> <<>>, frames |-> <<>>,
                    cut_marker |-> FALSE]

\* chunk = process.stdout.read(4096) returned n bytes ; jpeg_data += chunk ;
\* the inner loop
read_chunk(p) ==
    /\ pc[p] = "read"
    /\ \E n \in 1..Len(loc[p].stdout) :
         LET chunk == SubSeq(loc[p].stdout, 1, n)
             left == SubSeq(loc[p].stdout, n + 1, Len(loc[p].stdout))
             r == scan(loc[p].jpeg_data \o chunk, loc[p].frames)
         IN  loc' = [loc EXCEPT ![p] =
                       [stdout |-> left, jpeg_data |-> r.jpeg_data,
                        frames |-> r.frames,
                        cut_marker |-> \/ loc[p].cut_marker
                                       \/ /\ left # <<>>
                                          /\ chunk[n] = "ff"
                                          /\ Head(left) \in {"d8", "d9"}]]
    /\ UNCHANGED <<videos, tags, milvus, vectorizer_instance, loads, pc, req,
                   response, error, wrote>>

\* if not chunk: break ; process.wait() ; return frames
end_of_pipe(p) ==
    /\ pc[p] = "read"
    /\ loc[p].stdout = <<>>
    /\ pc' = [pc EXCEPT ![p] = "done"]
    /\ UNCHANGED <<videos, tags, milvus, vectorizer_instance, loads, req, loc,
                   response, error, wrote>>

Init_Chunks ==
    /\ videos = {}
    /\ tags = {}
    /\ milvus = EmptyBag
    /\ vectorizer_instance = NoInstance
    /\ loads = 0
    /\ pc = [p \in Procs |-> IF p \in Managers THEN "read" ELSE "idle"]
    /\ \E stream \in ByteStreams :
         /\ req = [p \in Procs |-> stream]
         /\ loc = [p \in Procs |-> PipeLoc(stream)]
    /\ response = [p \in Procs |-> "none"]
    /\ error = [p \in Procs |-> "none"]
    /\ wrote = [p \in Ingesters |-> NothingWritten]

Next_Chunks ==
    \/ \E p \in Managers : read_chunk(p)
    \/ \E p \in Managers : end_of_pipe(p)

SpecChunks == Init_Chunks /\ [][Next_Chunks]_vars

\* C21: for every byte stream and every way the reads split it into
\* consecutive chunks, a split inside an image or inside a two-byte marker
\* included, the frames the loop has extracted at the end of the pipe are
\* the frames it extracts from the stream arriving as one chunk.
C21_ChunkingIndependent ==
    \A p \in Managers :
        Done(p) => loc[p].frames = scan(req[p], <<>>).frames

\* C21 witness: a corrupt image and a good one were read with a chunk
\* border inside a marker, and the good one was extracted.
C21_Witness ==
    \E p \in Managers :
        /\ Done(p)
        /\ loc[p].cut_marker
        /\ req[p] = SOI \o <<"xx">> \o EOI \o SOI \o EOI
        /\ loc[p].frames = <<SOI \o EOI>>

(***************************************************************************)
(* create_video (src/backend/server.py) of one ingestion whose generation  *)
(* output may carry more tags than the prompt asked for.                   *)
(***************************************************************************)
\* tags lists of MaxTags and of more than MaxTags texts
LongTagLists == {<<"a", "b", "a">>, <<"a", "b", "b", "a">>}

LongResponses ==
    GenResponses
    \cup {[kind |-> "object", prompt |-> "condensed", tags |-> t] :
            t \in LongTagLists}

\* pm.create_transcript_from_audio(tags) where response.text is any JSON
\* the generation call can answer
transcribe_long(p) == transcribe_with(p, LongResponses)

Next_Tags ==
    \/ \E p \in Managers : receive_video(p)
    \/ \E p \in Managers : get_vectorizer(p)
    \/ \E p \in Managers : transcribe_long(p)
    \/ \E p \in Managers : insert_video(p)
    \/ \E p \in Managers : insert_tag(p)
    \/ \E p \in Managers : split_and_encode(p)
    \/ \E p \in Managers : insert_image_vector(p)
    \/ \E p \in Managers : insert_text_vector(p)

SpecTags == Init /\ [][Next_Tags]_vars

\* C22: an ingestion inserts at most 3 tag rows, whatever parseable output
\* the generation call gave.
C22_Claim ==
    \A p \in Ingesters :
        /\ wrote[p].tags <= MaxTags
        /\ pc[p] # "idle" =>
              Cardinality({r \in tags : r[3] = req[p].videoId}) <= MaxTags

\* C23: a get_vectorizer call whose test finds an instance cached returns
\* that instance and loads no model, whatever its model_name, and an
\* instance once cached stays the cached one: the model_name of the first
\* call decides the model from then on.
C23_Claim ==
    [][/\ \A p \in Procs :
             (/\ pc[p] = "return_instance"
              /\ pc'[p] = "done"
              /\ req[p].seen # NoInstance) =>
                 /\ loc'[p].vectorizer = req[p].seen
                 /\ loads' = loads
       /\ vectorizer_instance # NoInstance =>
             vectorizer_instance' = vectorizer_instance
      ]_vars

\* C24: when the parse of the generation output raises another exception
\* than a JSON decode error, process_audio reports failure on that attempt,
\* the first, without a wait or a further attempt, and the ingestion ends
\* in a failure having written no video row, no tag row and no vector.
C24_OtherExceptionEndsLoop ==
    \A p \in Ingesters :
        (Done(p) /\ loc[p].generated = "no_text") =>
            /\ LET r == process_audio(query_tags_table_get_tags,
                                      [kind |-> loc[p].generated])
               IN  /\ r.outcome = "None"
                   /\ r.parses = 1
                   /\ r.sleeps = 0
            /\ response[p] = "error"
            /\ error[p] = "TypeError"
            /\ wrote[p] = NothingWritten

\* C24 witness: an ingestion whose generation output had no text failed
\* while the stores hold the rows and vectors of another ingestion.
C24_Witness ==
    \E p \in Ingesters :
        /\ Done(p)
        /\ loc[p].generated = "no_text"
        /\ response[p] = "error"
        /\ videos # {}
        /\ milvus # EmptyBag

====
